---- MODULE Spec2Model ----
(***************************************************************************)
(* Model of yarnpkg-core's httpUtils.ts (network policy resolution, the    *)
(* request dispatcher, the response and certificate caches) and of         *)
(* EnhancedError.ts (the structured error).                                *)
(*                                                                         *)
(* Text is a string: String.length is Len, concatenation is \o, and glob   *)
(* matching, URL parsing and replaceAll are computed character by          *)
(* character with Head, Tail and SubSeq.                                   *)
(***************************************************************************)
EXTENDS Integers, Sequences, FiniteSets, TLC

\* ------------------------------------------------------------------------
\* Bounds of the model
\* ------------------------------------------------------------------------

\* Largest number of entries of the networkSettings map that is enumerated.
MaxFragments == 2

\* Number of calls of get/put/post/del that are made.
NCallers == 2

\* The networkConcurrency setting: the limit of the concurrency gate.
NetworkConcurrency == 1

\* Largest number of redirects a failed request has followed.
MaxRedirects == 2

\* Largest configured retry limit (httpRetry) that is enumerated.
MaxRetryLimit == 3

\* How many times an error is wrapped or enhanced after it is built.
MaxLayers == 2

\* ------------------------------------------------------------------------
\* State
\* ------------------------------------------------------------------------

\* Policy resolution.
VARIABLES
  nsTarget,         \* the target string handed to getNetworkSettings
  nsConfiguration,  \* the configuration: networkSettings map and defaults
  nsResult,         \* the returned settings (every key undefined before)
  nsPc              \* "call" before getNetworkSettings runs, "returned" after

nsVars == <<nsTarget, nsConfiguration, nsResult, nsPc>>

\* The structured error.
VARIABLES
  errInput,     \* what is wrapped: the value, the builder, the configuration
  errObject,    \* the EnhancedError instance
  errPc,        \* "thrown", "built", "builtRead", "assigned", "assignedRead"
  msgAssigned,  \* the text last assigned to message
  msgRead       \* the text last read from message

errVars == <<errInput, errObject, errPc, msgAssigned, msgRead>>

\* The client: the module state of httpUtils.ts, the gate, and the callers.
VARIABLES
  cache,         \* the response cache: target -> absent, pending, bytes, rejected
  certCache,     \* the certificate cache: path -> absent, pending, bytes, rejected
  activeCount,   \* the gate: calls admitted and not yet settled
  queue,         \* the gate: the requests waiting for a slot, oldest first
  pc,            \* per caller: "idle", "awaiting", "returned", "raised"
  call,          \* per caller: the function called and its arguments
  entryOf,       \* per get caller: the caller whose entry it awaits (0: none)
  req,           \* per caller: the request it started, if any
  result,        \* per caller: what the call returned or raised
  log,           \* per caller: what its request did (certificate, gate, transport)
  transportSeq   \* the number of transport calls made so far

httpVars == <<cache, certCache, activeCount, queue, pc, call, entryOf, req,
              result, log, transportSeq>>

\* ------------------------------------------------------------------------
\* Values shared by the whole model
\* ------------------------------------------------------------------------

\* JavaScript's null (a configuration key that a fragment does not define).
Null == "null"

\* JavaScript's undefined (a merged key no fragment has supplied yet).
Undefined == "undefined"

\* Object.keys(mergedNetworkSettings), in property order.
mergableKeys == <<"enableNetwork", "caFilePath", "httpProxy", "httpsProxy">>

KeySet == {mergableKeys[i] : i \in 1..Len(mergableKeys)}

\* The decimal text of a natural number (template-literal interpolation).
RECURSIVE NumText(_)
NumText(n) ==
  IF n < 10 THEN SubSeq("0123456789", n + 1, n + 1)
  ELSE NumText(n \div 10) \o NumText(n % 10)

\* ------------------------------------------------------------------------
\* new URL(target): the protocol (with its colon) and the host name of an
\* absolute URL "<scheme>://<host>/<path>".
\* ------------------------------------------------------------------------

\* The characters of str before the first occurrence of sep (all of str when
\* sep does not occur).
RECURSIVE Before(_, _)
Before(str, sep) ==
  IF Len(str) < Len(sep) THEN str
  ELSE IF SubSeq(str, 1, Len(sep)) = sep THEN ""
       ELSE Head(str) \o Before(Tail(str), sep)

\* The characters of str after the first occurrence of sep ("" when sep does
\* not occur).
RECURSIVE After(_, _)
After(str, sep) ==
  IF Len(str) < Len(sep) THEN ""
  ELSE IF SubSeq(str, 1, Len(sep)) = sep
       THEN SubSeq(str, Len(sep) + 1, Len(str))
       ELSE After(Tail(str), sep)

URL(target) ==
  [protocol |-> Before(target, "//"),
   hostname |-> Before(After(target, "//"), "/")]

\* ------------------------------------------------------------------------
\* micromatch.isMatch(hostname, glob) on host names: a literal character
\* matches itself, "*" matches any run of characters (a host name holds no
\* "/").
\* ------------------------------------------------------------------------

RECURSIVE GlobMatch(_, _)
GlobMatch(str, glob) ==
  IF glob = "" THEN str = ""
  ELSE IF Head(glob) = "*"
       THEN \/ GlobMatch(str, Tail(glob))
            \/ (str # "" /\ GlobMatch(Tail(str), glob))
       ELSE /\ str # ""
            /\ Head(str) = Head(glob)
            /\ GlobMatch(Tail(str), Tail(glob))

\* micromatch.isMatch(hostname, list): some glob of the list matches.
GlobMatchAny(str, globs) ==
  \E i \in 1..Len(globs) : GlobMatch(str, globs[i])

\* ------------------------------------------------------------------------
\* getNetworkSettings
\* ------------------------------------------------------------------------

\* A bug: ascending order, the least specific pattern first.
SortComparatorAscending(keyA, keyB) == Len(keyA) - Len(keyB)

\* The comparator handed to sort: a negative result puts keyA first.
SortComparator(keyA, keyB) == Len(keyB) - Len(keyA)

\* Insertion of one entry into an already sorted list, after every entry
\* that does not have to come after it (which keeps equal keys in their
\* original order).
RECURSIVE InsertSorted(_, _)
InsertSorted(entry, sorted) ==
  IF sorted = <<>> THEN <<entry>>
  ELSE IF SortComparator(Head(sorted).glob, entry.glob) <= 0
       THEN <<Head(sorted)>> \o InsertSorted(entry, Tail(sorted))
       ELSE <<entry>> \o sorted

\* The same with equal keys put in front: an unstable sort.
RECURSIVE InsertSortedBeforeTies(_, _)
InsertSortedBeforeTies(entry, sorted) ==
  IF sorted = <<>> THEN <<entry>>
  ELSE IF SortComparator(Head(sorted).glob, entry.glob) < 0
       THEN <<Head(sorted)>> \o InsertSortedBeforeTies(entry, Tail(sorted))
       ELSE <<entry>> \o sorted

RECURSIVE SortUnstable(_)
SortUnstable(entries) ==
  IF entries = <<>> THEN <<>>
  ELSE InsertSortedBeforeTies(entries[Len(entries)],
                              SortUnstable(SubSeq(entries, 1, Len(entries) - 1)))

\* [...networkSettings].sort(comparator): Array.prototype.sort is stable.
RECURSIVE SortSettings(_)
SortSettings(entries) ==
  IF entries = <<>> THEN <<>>
  ELSE InsertSorted(entries[Len(entries)],
                    SortSettings(SubSeq(entries, 1, Len(entries) - 1)))

\* The inner loop over mergableKeys for one matching fragment.
MergeFragment(merged, config) ==
  [key \in KeySet |->
     IF config[key] # Null /\ merged[key] = Undefined
     THEN config[key]
     ELSE merged[key]]

\* The loop over the sorted fragments.
RECURSIVE MergeMatching(_, _, _)
MergeMatching(hostname, sorted, merged) ==
  IF sorted = <<>> THEN merged
  ELSE MergeMatching(hostname, Tail(sorted),
                     IF GlobMatch(hostname, Head(sorted).glob)
                     THEN MergeFragment(merged, Head(sorted).config)
                     ELSE merged)

\* "Apply defaults".
ApplyDefaults(merged, configuration) ==
  [key \in KeySet |->
     IF merged[key] = Undefined THEN configuration.defaults[key] ELSE merged[key]]

getNetworkSettings(target, configuration) ==
  LET networkSettings == SortSettings(configuration.networkSettings)
      mergedNetworkSettings == [key \in KeySet |-> Undefined]
      url == URL(target)
  IN  ApplyDefaults(MergeMatching(url.hostname, networkSettings,
                                  mergedNetworkSettings),
                    configuration)

\* ------------------------------------------------------------------------
\* formatUtils, as far as error messages use it.  A configuration is seen
\* here only through its colour setting: "colors", "plain", or Null when the
\* error holds no configuration.
\* ------------------------------------------------------------------------

\* formatUtils.pretty(configuration, value, formatType): the text of the
\* value, wrapped in the colour of its type when colours are enabled.
pretty(configuration, value, formatType) ==
  IF configuration = "colors"
  THEN "^[[" \o formatType \o "m" \o value \o "^[[0m"
  ELSE value

\* formatUtils.json(value, formatType): the text of the value.
json(value, formatType) == value

\* formatUtils.tuple(formatType, value).
tuple(formatType, value) == [value |-> value, formatType |-> formatType]

\* formatUtils.prettyList(configuration, values, formatType): the formatted
\* values joined by ", ".
RECURSIVE prettyList(_, _, _)
prettyList(configuration, values, formatType) ==
  IF values = <<>> THEN ""
  ELSE IF Len(values) = 1 THEN pretty(configuration, values[1], formatType)
  ELSE pretty(configuration, values[1], formatType) \o ", "
         \o prettyList(configuration, Tail(values), formatType)

\* formatUtils.applyHyperlink(configuration, text, href) where the terminal
\* shows no hyperlinks: the text.
applyHyperlink(configuration, text, href) == text

\* ------------------------------------------------------------------------
\* EnhancedError
\* ------------------------------------------------------------------------

\* isError: any non-null object.
isError(error) == error.typeof = "object" /\ ~error.isNull

\* EnhancedError.isEnhancedError.
isEnhancedError(error) == isError(error) /\ error.isEnhancedError

\* A field builder: absent, a literal, or a function of the previous value
\* (every function the program uses appends a text).
NoBuilder == [kind |-> "undefined", text |-> ""]

Literal(text) == [kind |-> "literal", text |-> text]

Appending(text) == [kind |-> "function", text |-> text]

applyFieldBuilder(previous, builder) ==
  IF builder.kind = "undefined" THEN previous
  ELSE IF builder.kind = "function" THEN previous \o builder.text
  ELSE builder.text

\* The empty builder {}.
EmptyBuilder ==
  [name |-> NoBuilder, summary |-> NoBuilder, hasFields |-> FALSE,
   fields |-> <<>>, includeStack |-> Undefined]

\* A bug: the field is put before the fields the error has.
addFieldFirst(enhancedError, field) ==
  [enhancedError EXCEPT !.fields = <<field>> \o enhancedError.fields]

\* addField.
addField(enhancedError, field) ==
  [enhancedError EXCEPT !.fields = Append(enhancedError.fields, field)]

RECURSIVE addFields(_, _)
addFields(enhancedError, fields) ==
  IF fields = <<>> THEN enhancedError
  ELSE addFields(addField(enhancedError, Head(fields)), Tail(fields))

\* A bug: the stack is dropped only when the builder says so.
StackDroppedOnlyOnRequest(enhancedError, builder) ==
  builder.includeStack = "false"

\* builder.includeStack === false ||
\*   (builder.includeStack === undefined && !enhancedError.includeStack)
StackDropped(enhancedError, builder) ==
  \/ builder.includeStack = "false"
  \/ (builder.includeStack = Undefined /\ ~enhancedError.includeStack)

\* EnhancedError.enhance.
enhance(enhancedError, builder) ==
  LET named == [enhancedError EXCEPT
                  !.name = applyFieldBuilder(enhancedError.name, builder.name),
                  !.summary = applyFieldBuilder(enhancedError.summary,
                                                builder.summary)]
      extended == IF builder.hasFields
                  THEN addFields(named, builder.fields)
                  ELSE named
  IN  IF StackDropped(extended, builder)
      THEN [extended EXCEPT !.hasStack = FALSE, !.includeStack = FALSE]
      ELSE [extended EXCEPT !.hasStack = TRUE, !.includeStack = TRUE]

\* The fields of a new instance before the constructor body runs.
NewInstance ==
  [typeof |-> "object", isNull |-> FALSE, isEnhancedError |-> TRUE,
   name |-> "Error", summary |-> "", fields |-> <<>>, includeStack |-> TRUE,
   hasStack |-> TRUE, configuration |-> Null]

\* new Error(message).
NewError(message) ==
  [typeof |-> "object", isNull |-> FALSE, isEnhancedError |-> FALSE,
   isRequestError |-> FALSE, name |-> "Error", message |-> message]

\* The constructor.  messageOrError is a string ([typeof |-> "string",
\* value |-> text]), an object, or another value with its JSON text.
EnhancedError(messageOrError, builder, configuration) ==
  IF messageOrError.typeof # "string" /\ ~isError(messageOrError)
  THEN [NewInstance EXCEPT
          !.summary = "Non-error exception " \o messageOrError.json
                        \o " of type " \o messageOrError.typeof]
  ELSE LET error == IF messageOrError.typeof = "string"
                    THEN NewError(messageOrError.value)
                    ELSE messageOrError
           this == [NewInstance EXCEPT
                      !.name = error.name,
                      !.summary = IF isEnhancedError(error)
                                  THEN error.summary ELSE error.message,
                      !.includeStack = IF isEnhancedError(error)
                                       THEN error.includeStack ELSE TRUE,
                      !.fields = IF isEnhancedError(error)
                                 THEN error.fields ELSE <<>>,
                      !.configuration =
                         IF configuration # Undefined /\ configuration # Null
                         THEN configuration
                         ELSE IF isEnhancedError(error)
                              THEN error.configuration ELSE Null]
       IN  enhance(this, builder)

\* EnhancedError.prettyField.
prettyField(field, configuration) ==
  pretty(configuration, field.label, "CODE") \o ": "
    \o pretty(configuration, field.value.value, field.value.formatType)

\* EnhancedError.jsonField.
jsonField(field) ==
  json(field.label, "CODE") \o ": " \o json(field.value.value, field.value.formatType)

\* The loop of getStringifiedFields over a list of fields.
RECURSIVE StringifyFields(_, _)
StringifyFields(fields, configuration) ==
  IF fields = <<>> THEN ""
  ELSE "\n    "
         \o (IF configuration # Null
             THEN prettyField(Head(fields), configuration)
             ELSE jsonField(Head(fields)))
         \o StringifyFields(Tail(fields), configuration)

getStringifiedFields(this) == StringifyFields(this.fields, this.configuration)

\* A bug: the getter returns the summary alone.
getMessageSummaryOnly(this) == this.summary

\* get message().
getMessage(this) == this.summary \o getStringifiedFields(this)

\* String.prototype.replaceAll(pattern, ``): every occurrence of pattern is
\* removed, scanning once from the left; an empty pattern removes nothing.
RECURSIVE replaceAll(_, _)
replaceAll(str, pattern) ==
  LET found == {i \in 1..(Len(str) - Len(pattern) + 1) :
                  SubSeq(str, i, i + Len(pattern) - 1) = pattern}
  IN  IF pattern = "" \/ found = {} THEN str
      ELSE LET first == CHOOSE i \in found : \A j \in found : i <= j
           IN  SubSeq(str, 1, first - 1)
                 \o replaceAll(SubSeq(str, first + Len(pattern), Len(str)),
                               pattern)

\* set message(message).
setMessage(this, message) ==
  [this EXCEPT !.summary = replaceAll(message, getStringifiedFields(this))]

\* ------------------------------------------------------------------------
\* enhanceRequestError
\* ------------------------------------------------------------------------

\* prettifyResponseCode.
prettifyResponseCode(response, configuration) ==
  LET prettyStatusCode == pretty(configuration, NumText(response.statusCode),
                                 "NUMBER")
      href == "https://developer.mozilla.org/en-US/docs/Web/HTTP/Status/"
                \o NumText(response.statusCode)
  IN  applyHyperlink(configuration,
                     prettyStatusCode
                       \o (IF response.statusMessage # ""
                           THEN " (" \o response.statusMessage \o ")"
                           ELSE ""),
                     href)

FieldsBuilder(fields) ==
  [EmptyBuilder EXCEPT !.hasFields = TRUE, !.fields = fields]

\* The field labels, in the order the function can attach them.
RequestFieldLabels ==
  <<"Request Method", "Request URL", "Request Redirects",
    "Request Retry Count", "Response Code">>

\* A bug: the retry count is attached whenever a retry happened.
RetriesExhaustedAnyRetry(request) == request.retryCount > 0

\* error.request.retryCount === error.request.options.retry.limit
RetriesExhausted(request) == request.retryCount = request.retryLimit

enhanceRequestError(error, configuration) ==
  LET created == EnhancedError(error,
                               [EmptyBuilder EXCEPT !.includeStack = "false"],
                               configuration)
      timed == IF error.isTimeoutError /\ error.event = "socket"
               THEN enhance(created,
                      [EmptyBuilder EXCEPT !.summary =
                         Appending(" (can be increased via "
                                     \o pretty(configuration, "httpTimeout",
                                               "CONFIGURATION_SETTING")
                                     \o ")")])
               ELSE created
      requested == IF error.hasRequest
                   THEN enhance(timed, FieldsBuilder(
                          <<[label |-> "Request Method",
                             value |-> tuple("NO_HINT", error.request.method)],
                            [label |-> "Request URL",
                             value |-> tuple("URL", error.request.requestUrl)]>>))
                   ELSE timed
      redirected == IF error.hasRequest /\ Len(error.request.redirects) > 0
                    THEN enhance(requested, FieldsBuilder(
                           <<[label |-> "Request Redirects",
                              value |-> tuple("NO_HINT",
                                 prettyList(configuration,
                                            error.request.redirects, "URL"))]>>))
                    ELSE requested
      retried == IF error.hasRequest /\ RetriesExhausted(error.request)
                 THEN enhance(redirected, FieldsBuilder(
                        <<[label |-> "Request Retry Count",
                           value |-> tuple("NO_HINT",
                              pretty(configuration,
                                     NumText(error.request.retryCount), "NUMBER")
                                \o " (can be increased via "
                                \o pretty(configuration, "httpRetry",
                                          "CONFIGURATION_SETTING")
                                \o ")")]>>))
                 ELSE redirected
  IN  IF error.hasResponse
      THEN enhance(retried, FieldsBuilder(
             <<[label |-> "Response Code",
                value |-> tuple("NO_HINT",
                   prettifyResponseCode(error.response, configuration))]>>))
      ELSE retried

\* ------------------------------------------------------------------------
\* Policy resolution on its own: a configuration and a target are chosen,
\* then getNetworkSettings is applied.
\* ------------------------------------------------------------------------

\* Glob patterns used as keys of the networkSettings map.
Globs == <<"*", "*.example.com", "api.example.*", "api.example.com">>

\* Targets whose policy is resolved.
NsTargets ==
  {"https://api.example.com/x", "https://cdn.example.com/x",
   "https://api.example.org/x"}

\* The keys a fragment defines (the others are null).
DefinedKeySets ==
  {{}, {"enableNetwork"}, {"httpProxy"}, {"enableNetwork", "httpProxy"},
   {"caFilePath", "httpsProxy"}, KeySet}

\* The value fragment g gives to a key other than enableNetwork when it
\* defines it: proxies and certificate paths name the fragment they come from.
FragmentValue(g, key) ==
  CASE key = "caFilePath" -> "/ca/" \o NumText(g) \o ".pem"
    [] key = "httpProxy"  -> "http://proxy" \o NumText(g) \o ":8080"
    [] key = "httpsProxy" -> "http://sproxy" \o NumText(g)

FragmentConfigs(g) ==
  {[key \in KeySet |->
      IF key \notin ks THEN Null
      ELSE IF key = "enableNetwork" THEN en ELSE FragmentValue(g, key)]
   : ks \in DefinedKeySets, en \in {"true", "false"}}

Fragments ==
  UNION {{[glob |-> Globs[g], config |-> c] : c \in FragmentConfigs(g)}
         : g \in 1..Len(Globs)}

\* The ordered entries of a networkSettings map: the keys of a Map are
\* distinct.
RECURSIVE FragmentLists(_)
FragmentLists(n) ==
  IF n = 0 THEN {<<>>}
  ELSE LET shorter == FragmentLists(n - 1)
       IN  shorter \cup
           UNION {{Append(l, f) : f \in {x \in Fragments :
                                           \A i \in 1..Len(l) : l[i].glob # x.glob}}
                  : l \in {x \in shorter : Len(x) = n - 1}}

\* The global defaults of the four keys.
DefaultSettings ==
  {[enableNetwork |-> "true", caFilePath |-> Null,
    httpProxy |-> Null, httpsProxy |-> Null],
   [enableNetwork |-> "false", caFilePath |-> "/ca/default.pem",
    httpProxy |-> "http://proxy0:8080", httpsProxy |-> Null]}

NsInit ==
  /\ nsTarget \in NsTargets
  /\ nsConfiguration \in
       {[networkSettings |-> l, defaults |-> d] :
          l \in FragmentLists(MaxFragments), d \in DefaultSettings}
  /\ nsResult = [key \in KeySet |-> Undefined]
  /\ nsPc = "call"

NsIdle ==
  /\ nsTarget = "https://api.example.com/x"
  /\ nsConfiguration =
       [networkSettings |-> <<>>,
        defaults |-> [enableNetwork |-> "true", caFilePath |-> Null,
                      httpProxy |-> Null, httpsProxy |-> Null]]
  /\ nsResult = [key \in KeySet |-> Undefined]
  /\ nsPc = "call"

Resolve ==
  /\ nsPc = "call"
  /\ nsResult' = getNetworkSettings(nsTarget, nsConfiguration)
  /\ nsPc' = "returned"
  /\ UNCHANGED <<nsTarget, nsConfiguration>>
  /\ UNCHANGED <<errVars, httpVars>>

\* ------------------------------------------------------------------------
\* The structured error on its own: a failure value is wrapped, then its
\* message is read and assigned.
\* ------------------------------------------------------------------------

\* The request of a RequestError that never issued one.
NoRequest ==
  [method |-> "", requestUrl |-> "", redirects |-> <<>>,
   retryCount |-> 0, retryLimit |-> 0]

\* The response of a RequestError that never received one.
NoResponse == [statusCode |-> 0, statusMessage |-> ""]

RedirectUrls ==
  <<"https://a.example.com/1", "https://b.example.com/2",
    "https://c.example.com/3", "https://d.example.com/4">>

\* The requests a failure can carry: redirects followed, retries made out
\* of the configured limit.
FailedRequests ==
  {[method |-> "GET", requestUrl |-> "https://api.example.com/x",
    redirects |-> SubSeq(RedirectUrls, 1, r),
    retryCount |-> c, retryLimit |-> l]
   : r \in 0..MaxRedirects,
     c \in 0..MaxRetryLimit,
     l \in 0..MaxRetryLimit}
  \ {q \in [method : {"GET"}, requestUrl : {"https://api.example.com/x"},
            redirects : {SubSeq(RedirectUrls, 1, r) : r \in 0..MaxRedirects},
            retryCount : 0..MaxRetryLimit, retryLimit : 0..MaxRetryLimit] :
       q.retryCount > q.retryLimit}

FailedResponses ==
  {[statusCode |-> 503, statusMessage |-> "Service Unavailable"],
   [statusCode |-> 404, statusMessage |-> ""]}

\* The RequestError values the transport can reject with.
RequestErrors ==
  {[typeof |-> "object", isNull |-> FALSE, isEnhancedError |-> FALSE,
    isRequestError |-> TRUE, name |-> IF t THEN "TimeoutError" ELSE "RequestError",
    message |-> "boom", isTimeoutError |-> t,
    event |-> IF t THEN ev ELSE "", hasRequest |-> TRUE, request |-> q,
    hasResponse |-> resp # NoResponse, response |-> resp]
   : t \in BOOLEAN, ev \in {"socket", "request"}, q \in FailedRequests,
     resp \in FailedResponses \cup {NoResponse}}
  \cup
  {[typeof |-> "object", isNull |-> FALSE, isEnhancedError |-> FALSE,
    isRequestError |-> TRUE, name |-> "RequestError",
    message |-> "boom", isTimeoutError |-> FALSE,
    event |-> "", hasRequest |-> FALSE, request |-> NoRequest,
    hasResponse |-> resp # NoResponse, response |-> resp]
   : resp \in FailedResponses \cup {NoResponse}}

\* Fields handed to the constructor directly.
FieldX == [label |-> "X", value |-> tuple("NO_HINT", "1")]

FieldY == [label |-> "Y", value |-> tuple("NO_HINT", "2")]

\* Direct constructions: new EnhancedError(`boom`, {fields}, configuration?).
DirectInputs ==
  {[origin |-> "direct", value |-> [typeof |-> "string", value |-> "boom"],
    builder |-> b, configuration |-> c]
   : b \in {EmptyBuilder, FieldsBuilder(<<FieldX>>),
            FieldsBuilder(<<FieldX, FieldY>>), FieldsBuilder(<<FieldX, FieldX>>)},
     c \in {Undefined, "plain", "colors"}}

\* Failures of the transport call, wrapped by enhanceRequestError.
TransportInputs ==
  {[origin |-> "transport", value |-> e, builder |-> EmptyBuilder,
    configuration |-> c]
   : e \in RequestErrors, c \in {"plain", "colors"}}

ErrInit ==
  /\ errInput \in DirectInputs \cup TransportInputs
  /\ errObject = NewInstance
  /\ errPc = "thrown"
  /\ msgAssigned = ""
  /\ msgRead = ""

ErrIdle ==
  /\ errInput = [origin |-> "direct",
                 value |-> [typeof |-> "string", value |-> "boom"],
                 builder |-> EmptyBuilder, configuration |-> Undefined]
  /\ errObject = NewInstance
  /\ errPc = "thrown"
  /\ msgAssigned = ""
  /\ msgRead = ""

\* new EnhancedError(value, builder, configuration)
Construct ==
  /\ errPc = "thrown"
  /\ errInput.origin = "direct"
  /\ errObject' = EnhancedError(errInput.value, errInput.builder,
                                errInput.configuration)
  /\ errPc' = "built"
  /\ UNCHANGED <<errInput, msgAssigned, msgRead>>
  /\ UNCHANGED <<nsVars, httpVars>>

\* The catch handler of request applied to a RequestError.
CatchRequestError ==
  /\ errPc = "thrown"
  /\ errInput.origin = "transport"
  /\ errObject' = enhanceRequestError(errInput.value, errInput.configuration)
  /\ errPc' = "built"
  /\ UNCHANGED <<errInput, msgAssigned, msgRead>>
  /\ UNCHANGED <<nsVars, httpVars>>

\* The texts assigned to message: plain texts, and texts that hold the
\* rendered fields of the instance once, twice, or nested in themselves.
AssignedTexts(this) ==
  LET sf == getStringifiedFields(this)
      half == Len(sf) \div 2
  IN  {"new", "", this.summary \o sf \o " again", "new" \o sf,
       sf \o "new" \o sf,
       SubSeq(sf, 1, half) \o sf \o SubSeq(sf, half + 1, Len(sf))}

\* error.message = text
AssignMessage ==
  /\ errPc \in {"built", "builtRead"}
  /\ \E text \in AssignedTexts(errObject) :
       /\ errObject' = setMessage(errObject, text)
       /\ msgAssigned' = text
  /\ errPc' = "assigned"
  /\ UNCHANGED <<errInput, msgRead>>
  /\ UNCHANGED <<nsVars, httpVars>>

\* error.message
ReadMessage ==
  /\ errPc \in {"built", "assigned"}
  /\ msgRead' = getMessage(errObject)
  /\ errPc' = IF errPc = "built" THEN "builtRead" ELSE "assignedRead"
  /\ UNCHANGED <<errInput, errObject, msgAssigned>>
  /\ UNCHANGED <<nsVars, httpVars>>

ErrNext == Construct \/ CatchRequestError \/ AssignMessage \/ ReadMessage

\* ------------------------------------------------------------------------
\* The client: request, get, put, post, del
\* ------------------------------------------------------------------------

Callers == 1..NCallers

\* The targets that are requested.
Targets ==
  {"https://api.example.com/x", "http://api.example.com/x",
   "http://cdn.example.com/x"}

NoSettings ==
  [enableNetwork |-> Null, caFilePath |-> Null, httpProxy |-> Null,
   httpsProxy |-> Null]

\* The configurations callers pass.  "open" trusts a certificate file for
\* api.example.com and lets cdn hosts use plain http; "strict" proxies
\* *.example.com, disables the network for api.example.com and whitelists
\* no host.
Configuration(name) ==
  IF name = "open"
  THEN [networkSettings |->
          <<[glob |-> "api.example.com",
             config |-> [NoSettings EXCEPT !.caFilePath = "/ca/corp.pem"]]>>,
        defaults |-> [NoSettings EXCEPT !.enableNetwork = "true"],
        unsafeHttpWhitelist |-> <<"cdn.*">>,
        format |-> "plain"]
  ELSE [networkSettings |->
          <<[glob |-> "*.example.com",
             config |-> [NoSettings EXCEPT !.httpProxy = "http://proxy:8080"]],
            [glob |-> "api.example.com",
             config |-> [NoSettings EXCEPT !.enableNetwork = "false"]]>>,
        defaults |-> [NoSettings EXCEPT !.enableNetwork = "true"],
        unsafeHttpWhitelist |-> <<>>,
        format |-> "colors"]

ConfigurationNames == {"open", "strict"}

CertPaths == {"/ca/corp.pem"}

\* The absence of an error.
NoError == [typeof |-> "undefined", isNull |-> FALSE]

\* A bug: the network switch is not consulted.
NetworkDisabledNever(networkConfig) == FALSE

\* networkConfig.enableNetwork === false
NetworkDisabled(networkConfig) == networkConfig.enableNetwork = "false"

\* A bug: the whitelist is applied whatever the protocol.
UnsafeHttpAnyProtocol(url, configuration) ==
  ~GlobMatchAny(url.hostname, configuration.unsafeHttpWhitelist)

\* url.protocol === `http:` && !micromatch.isMatch(url.hostname, whitelist)
UnsafeHttp(url, configuration) ==
  /\ url.protocol = "http:"
  /\ ~GlobMatchAny(url.hostname, configuration.unsafeHttpWhitelist)

\* The part of request that runs before its first await: the error it
\* throws, or NoError when both policy checks pass.
RequestPolicyError(target, configuration) ==
  LET networkConfig == getNetworkSettings(target, configuration)
      url == URL(target)
  IN  IF NetworkDisabled(networkConfig)
      THEN NewError("Request to '" \o target
                      \o "' has been blocked because of your configuration settings")
      ELSE IF UnsafeHttp(url, configuration)
      THEN NewError("Unsafe http requests must be explicitly whitelisted in your configuration ("
                      \o url.hostname \o ")")
      ELSE NoError

\* The outcome of the policy checks for each target and configuration that
\* callers use.
PolicyErrors ==
  [target \in Targets, name \in ConfigurationNames |->
     RequestPolicyError(target, Configuration(name))]

\* The resolved policy for each target and configuration that callers use.
NetworkConfigs ==
  [target \in Targets, name \in ConfigurationNames |->
     getNetworkSettings(target, Configuration(name))]

\* networkConfig.caFilePath for each target and configuration that callers
\* use.
CaFilePaths ==
  [target \in Targets, name \in ConfigurationNames |->
     NetworkConfigs[target, name].caFilePath]

\* networkConfig.caFilePath of the request of a call, and whether it is
\* truthy.
CaFilePath(called) == CaFilePaths[called.target, called.configuration]

HasCaFilePath(called) == CaFilePath(called) \notin {Null, ""}

\* The failure of xfs.readFilePromise.
CertificateReadError == NewError("ENOENT: no such file or directory")

\* The failures of the transport call: a RequestError of got (a request was
\* issued, retries exhausted, status 503), or an error of another class.
TransportRequestError ==
  [typeof |-> "object", isNull |-> FALSE, isEnhancedError |-> FALSE,
   isRequestError |-> TRUE, name |-> "HTTPError",
   message |-> "Response code 503 (Service Unavailable)",
   isTimeoutError |-> FALSE, event |-> "", hasRequest |-> TRUE,
   request |-> [method |-> "GET", requestUrl |-> "https://api.example.com/x",
                redirects |-> <<>>, retryCount |-> MaxRetryLimit,
                retryLimit |-> MaxRetryLimit],
   hasResponse |-> TRUE,
   response |-> [statusCode |-> 503, statusMessage |-> "Service Unavailable"]]

TransportOtherError ==
  [typeof |-> "object", isNull |-> FALSE, isEnhancedError |-> FALSE,
   isRequestError |-> FALSE, name |-> "TypeError",
   message |-> "The payload has been already provided"]

TransportFailures == {TransportRequestError, TransportOtherError}

\* A bug: the failure is rethrown as it is.
CatchTransportErrorRethrow(error, configuration) == error

\* The catch handler of the transport call.
CatchTransportError(error, configuration) ==
  IF error.isRequestError
  THEN enhanceRequestError(error, configuration.format)
  ELSE error

\* What the catch handler throws for each failure and configuration that
\* occur.
CaughtErrors ==
  [failure \in TransportFailures, name \in ConfigurationNames |->
     CatchTransportError(failure, Configuration(name))]

\* JSON.parse of the text of a number.
RECURSIVE ParseNumber(_)
ParseNumber(text) ==
  LET digit == CHOOSE d \in 0..9 :
                 NumText(d) = SubSeq(text, Len(text), Len(text))
  IN  IF Len(text) = 1 THEN digit
      ELSE 10 * ParseNumber(SubSeq(text, 1, Len(text) - 1)) + digit

\* What get returns for an entry: the bytes, or JSON.parse(entry.toString()).
GetResult(body, jsonResponse) ==
  IF jsonResponse
  THEN [kind |-> "json", bytes |-> "", value |-> ParseNumber(body), error |-> NoError]
  ELSE [kind |-> "bytes", bytes |-> body, value |-> 0, error |-> NoError]

\* What put, post and del return: response.body.
BodyResult(body) ==
  [kind |-> "bytes", bytes |-> body, value |-> 0, error |-> NoError]

RaisedResult(error) ==
  [kind |-> "error", bytes |-> "", value |-> 0, error |-> error]

NoResult == [kind |-> "none", bytes |-> "", value |-> 0, error |-> NoError]

NoCall ==
  [op |-> "none", target |-> "", configuration |-> "open", jsonResponse |-> FALSE]

NoRequestYet == [state |-> "none", body |-> "", error |-> NoError]

NoLog ==
  [certLookup |-> FALSE, fileRead |-> FALSE, admitted |-> FALSE,
   transport |-> 0, failure |-> NoError]

AbsentEntry == [state |-> "absent", owner |-> 0, body |-> "", error |-> NoError]

AbsentCertificate == [state |-> "absent", waiters |-> <<>>]

HttpInit ==
  /\ cache = [t \in Targets |-> AbsentEntry]
  /\ certCache = [p \in CertPaths |-> AbsentCertificate]
  /\ activeCount = 0
  /\ queue = <<>>
  /\ pc = [c \in Callers |-> "idle"]
  /\ call = [c \in Callers |-> NoCall]
  /\ entryOf = [c \in Callers |-> 0]
  /\ req = [c \in Callers |-> NoRequestYet]
  /\ result = [c \in Callers |-> NoResult]
  /\ log = [c \in Callers |-> NoLog]
  /\ transportSeq = 0

\* The state as one record, for the helpers below.
World ==
  [cache |-> cache, certCache |-> certCache, activeCount |-> activeCount,
   queue |-> queue, pc |-> pc, call |-> call, entryOf |-> entryOf, req |-> req,
   result |-> result, log |-> log, transportSeq |-> transportSeq]

Commit(w) ==
  /\ cache' = w.cache
  /\ certCache' = w.certCache
  /\ activeCount' = w.activeCount
  /\ queue' = w.queue
  /\ pc' = w.pc
  /\ call' = w.call
  /\ entryOf' = w.entryOf
  /\ req' = w.req
  /\ result' = w.result
  /\ log' = w.log
  /\ transportSeq' = w.transportSeq

\* The limiter of getLimit(`networkConcurrency`): a call runs at once while
\* fewer than the limit are active.
LimitHasSlot(limit, active) == active < limit

\* A bug: gotClient(target) is called without the limiter.
TransportStartsUnlimited(name, active) == TRUE

\* configuration.getLimit(`networkConcurrency`)(() => gotClient(target)):
\* whether the transport call of a request that reaches it starts at once.
TransportStartsNow(name, active) ==
  LimitHasSlot(NetworkConcurrency, active)

\* A bug: gotClient(target) is called outside the limiter's accounting.
StartTransportWithoutSlot(w, c) ==
  [w EXCEPT !.transportSeq = @ + 1,
            !.req[c].state = "transport",
            !.log[c].admitted = TRUE,
            !.log[c].transport = @ + 1]

\* The limiter runs the callback of request c: gotClient(target) is called.
StartTransport(w, c) ==
  [w EXCEPT !.activeCount = @ + 1,
            !.transportSeq = @ + 1,
            !.req[c].state = "transport",
            !.log[c].admitted = TRUE,
            !.log[c].transport = @ + 1]

\* Request c reaches the limiter: it runs at once or joins the queue.
EnterGate(w, c) ==
  IF TransportStartsNow(w.call[c].configuration, w.activeCount)
  THEN StartTransport(w, c)
  ELSE [w EXCEPT !.queue = Append(@, c), !.req[c].state = "queued"]

\* The limiter after a call has settled: the slot is freed and the oldest
\* waiting request runs.
ReleaseGate(w) ==
  LET freed == [w EXCEPT !.activeCount = @ - 1]
  IN  IF freed.queue = <<>> THEN freed
      ELSE StartTransport([freed EXCEPT !.queue = Tail(@)], Head(freed.queue))

\* A bug: get does not store the entry it has just created.
CacheAfterDispatchUnset(entries, target, entry) == entries

\* cache.set(target, entry) in get, right after the dispatch.
CacheAfterDispatch(entries, target, entry) ==
  [entries EXCEPT ![target] = entry]

\* A bug: put, post and del store their response like get.
UsesCacheAnyVerb(op) == TRUE

\* Only get keeps its entry in cache.
UsesCache(op) == op = "get"

\* A bug: only the caller that dispatched is resumed.
AwaitingOnlyDispatcher(w, c) ==
  {d \in {c} : w.pc[d] = "awaiting" /\ w.entryOf[d] = c}

\* The callers of get suspended at `await entry` on the entry of request c.
Awaiting(w, c) ==
  {d \in Callers : w.pc[d] = "awaiting" /\ w.entryOf[d] = c}

\* The promise of request c settles.  For put, post and del the caller
\* resumes with response.body or the error.  For get the callback of then
\* stores the body on success; on failure the entry in the cache is the
\* rejected promise itself; every caller awaiting the entry resumes.
Settle(w, c, ok, body, error) ==
  LET target == w.call[c].target
      settled == [w EXCEPT !.req[c] =
                    [state |-> IF ok THEN "fulfilled" ELSE "rejected",
                     body |-> body, error |-> error]]
  IN  IF UsesCache(w.call[c].op)
      THEN LET awaiting == Awaiting(w, c)
           IN  [settled EXCEPT
                  !.cache[target] =
                     IF ok
                     THEN [state |-> "bytes", owner |-> 0, body |-> body,
                           error |-> NoError]
                     ELSE IF @.state = "pending" /\ @.owner = c
                          THEN [state |-> "rejected", owner |-> 0, body |-> "",
                                error |-> error]
                          ELSE @,
                  !.pc = [d \in Callers |->
                            IF d \in awaiting
                            THEN (IF ok THEN "returned" ELSE "raised")
                            ELSE w.pc[d]],
                  !.result = [d \in Callers |->
                                IF d \in awaiting
                                THEN (IF ok
                                      THEN GetResult(body, w.call[d].jsonResponse)
                                      ELSE RaisedResult(error))
                                ELSE w.result[d]]]
      ELSE [settled EXCEPT
              !.pc[c] = IF ok THEN "returned" ELSE "raised",
              !.result[c] = IF ok THEN BodyResult(body) ELSE RaisedResult(error)]

\* The call made by caller c starts request: the policy checks run at once;
\* the request then rejects or suspends at its first await.
StartRequest(w, c) ==
  LET error == PolicyErrors[w.call[c].target, w.call[c].configuration]
  IN  IF error = NoError
      THEN [w EXCEPT !.req[c].state = "import"]
      ELSE [w EXCEPT !.req[c] = [state |-> "rejected", body |-> "",
                                 error |-> error]]

\* Callers are numbered in the order of their calls.
MayCall(c) ==
  /\ pc[c] = "idle"
  /\ \A d \in Callers : d < c => pc[d] # "idle"

\* put, post, del: await request(target, body, {...options, method}).
CallVerb(c, op, target, configuration) ==
  /\ MayCall(c)
  /\ LET called == [World EXCEPT
                      !.call[c] = [op |-> op, target |-> target,
                                   configuration |-> configuration,
                                   jsonResponse |-> FALSE],
                      !.pc[c] = "awaiting"]
         started == StartRequest(called, c)
     IN  Commit(IF started.req[c].state = "rejected"
                THEN Settle(started, c, FALSE, "", started.req[c].error)
                ELSE started)
  /\ UNCHANGED <<nsVars, errVars>>

\* A bug: a Buffer in the cache is not taken for an entry.
EntryFoundOnlyPromise(entry) == entry.state \in {"pending", "rejected"}

\* A bug: get does not look into the cache.
EntryFoundNever(entry) == FALSE

\* `if (!entry)` is not taken: the cache has a promise or a Buffer.
EntryFound(entry) == entry.state # "absent"

\* get, no entry for the target: request is started and the entry stored
\* before get suspends.
CallGetDispatch(c, target, configuration, jsonResponse) ==
  /\ MayCall(c)
  /\ ~EntryFound(cache[target])
  /\ LET called == [World EXCEPT
                      !.call[c] = [op |-> "get", target |-> target,
                                   configuration |-> configuration,
                                   jsonResponse |-> jsonResponse],
                      !.pc[c] = "awaiting",
                      !.entryOf[c] = c]
         started == StartRequest(called, c)
         stored == [started EXCEPT
                      !.cache = CacheAfterDispatch(@, target,
                                  [state |-> "pending", owner |-> c,
                                   body |-> "", error |-> NoError])]
     IN  Commit(IF stored.req[c].state = "rejected"
                THEN Settle(stored, c, FALSE, "", stored.req[c].error)
                ELSE stored)
  /\ UNCHANGED <<nsVars, errVars>>

\* get, the entry is a promise: the caller awaits it.
CallGetAwait(c, target, configuration, jsonResponse) ==
  /\ MayCall(c)
  /\ EntryFound(cache[target])
  /\ cache[target].state \in {"pending", "rejected"}
  /\ LET called == [World EXCEPT
                      !.call[c] = [op |-> "get", target |-> target,
                                   configuration |-> configuration,
                                   jsonResponse |-> jsonResponse]]
     IN  Commit(IF cache[target].state = "pending"
                THEN [called EXCEPT !.pc[c] = "awaiting",
                                    !.entryOf[c] = cache[target].owner]
                ELSE [called EXCEPT !.pc[c] = "raised",
                                    !.result[c] =
                                       RaisedResult(cache[target].error)])
  /\ UNCHANGED <<nsVars, errVars>>

\* get, the entry is a Buffer: it is returned without suspending.
CallGetCached(c, target, configuration, jsonResponse) ==
  /\ MayCall(c)
  /\ EntryFound(cache[target])
  /\ cache[target].state = "bytes"
  /\ Commit([World EXCEPT
               !.call[c] = [op |-> "get", target |-> target,
                            configuration |-> configuration,
                            jsonResponse |-> jsonResponse],
               !.pc[c] = "returned",
               !.result[c] = GetResult(cache[target].body, jsonResponse)])
  /\ UNCHANGED <<nsVars, errVars>>

\* request resumes after `await import(got)` and needs no certificate, or
\* finds its bytes in the certificate cache: it goes on to the limiter.
ProceedToGate(c) ==
  /\ req[c].state = "import"
  /\ LET path == CaFilePath(call[c])
     IN  IF HasCaFilePath(call[c])
         THEN /\ certCache[path].state = "bytes"
              /\ Commit(EnterGate([World EXCEPT !.log[c].certLookup = TRUE], c))
         ELSE Commit(EnterGate(World, c))
  /\ UNCHANGED <<nsVars, errVars>>

\* A bug: getCachedCertificate does not store the read it has started.
CertCacheAfterReadUnset(entries, path, entry) == entries

\* certCache.set(caFilePath, certificate), right after the read is started.
CertCacheAfterRead(entries, path, entry) ==
  [entries EXCEPT ![path] = entry]

\* getCachedCertificate, no entry for the path: the read is started and its
\* promise stored, then request awaits it.
ProceedStartRead(c) ==
  /\ req[c].state = "import"
  /\ LET path == CaFilePath(call[c])
     IN  /\ HasCaFilePath(call[c])
         /\ certCache[path].state = "absent"
         /\ Commit([World EXCEPT
                      !.certCache = CertCacheAfterRead(@, path,
                                      [state |-> "pending", waiters |-> <<c>>]),
                      !.req[c].state = "cert",
                      !.log[c].certLookup = TRUE,
                      !.log[c].fileRead = TRUE])
  /\ UNCHANGED <<nsVars, errVars>>

\* getCachedCertificate, the entry is the promise of a read in flight:
\* request awaits it.
ProceedJoinRead(c) ==
  /\ req[c].state = "import"
  /\ LET path == CaFilePath(call[c])
     IN  /\ HasCaFilePath(call[c])
         /\ certCache[path].state = "pending"
         /\ Commit([World EXCEPT
                      !.certCache[path].waiters = Append(@, c),
                      !.req[c].state = "cert",
                      !.log[c].certLookup = TRUE])
  /\ UNCHANGED <<nsVars, errVars>>

\* getCachedCertificate, the entry is the promise of a read that failed:
\* awaiting it rejects the request.
ProceedReadRejected(c) ==
  /\ req[c].state = "import"
  /\ LET path == CaFilePath(call[c])
     IN  /\ HasCaFilePath(call[c])
         /\ certCache[path].state = "rejected"
         /\ Commit(Settle([World EXCEPT !.log[c].certLookup = TRUE], c,
                          FALSE, "", CertificateReadError))
  /\ UNCHANGED <<nsVars, errVars>>

\* The requests in waiters go on to the limiter, in order.
RECURSIVE EnterGateAll(_, _)
EnterGateAll(w, waiters) ==
  IF waiters = <<>> THEN w
  ELSE EnterGateAll(EnterGate(w, Head(waiters)), Tail(waiters))

\* The requests in waiters reject with error, in order.
RECURSIVE RejectAll(_, _, _)
RejectAll(w, waiters, error) ==
  IF waiters = <<>> THEN w
  ELSE RejectAll(Settle(w, Head(waiters), FALSE, "", error), Tail(waiters), error)

\* xfs.readFilePromise resolves: the callback of then stores the bytes and
\* the requests awaiting the read go on.
CertificateReadSucceeds(path) ==
  /\ certCache[path].state = "pending"
  /\ Commit(EnterGateAll([World EXCEPT
                            !.certCache[path] = [state |-> "bytes",
                                                 waiters |-> <<>>]],
                         certCache[path].waiters))
  /\ UNCHANGED <<nsVars, errVars>>

\* xfs.readFilePromise rejects: the stored promise is rejected and the
\* requests awaiting the read reject.
CertificateReadFails(path) ==
  /\ certCache[path].state = "pending"
  /\ Commit(RejectAll([World EXCEPT
                         !.certCache[path] = [state |-> "rejected",
                                              waiters |-> <<>>]],
                      certCache[path].waiters, CertificateReadError))
  /\ UNCHANGED <<nsVars, errVars>>

\* The body of the response to the transport call of request c: the text of
\* the caller's number, so that two calls never answer the same bytes.
ResponseBody(c) == NumText(c)

\* The transport call of request c resolves: the limiter frees the slot and
\* the request resolves with the response.
TransportSucceeds(c) ==
  /\ req[c].state = "transport"
  /\ Commit(Settle(ReleaseGate(World), c, TRUE, ResponseBody(c), NoError))
  /\ UNCHANGED <<nsVars, errVars>>

\* The transport call of request c rejects: the catch handler runs, the
\* limiter frees the slot and the request rejects.
TransportFails(c, failure) ==
  /\ req[c].state = "transport"
  /\ Commit(Settle(ReleaseGate([World EXCEPT !.log[c].failure = failure]), c,
                   FALSE, "",
                   CaughtErrors[failure, call[c].configuration]))
  /\ UNCHANGED <<nsVars, errVars>>

Next ==
  \/ \E c \in Callers, op \in {"put", "post", "del"}, target \in Targets,
        configuration \in ConfigurationNames :
       CallVerb(c, op, target, configuration)
  \/ \E c \in Callers, target \in Targets,
        configuration \in ConfigurationNames, jsonResponse \in BOOLEAN :
       \/ CallGetDispatch(c, target, configuration, jsonResponse)
       \/ CallGetAwait(c, target, configuration, jsonResponse)
       \/ CallGetCached(c, target, configuration, jsonResponse)
  \/ \E c \in Callers :
       \/ ProceedToGate(c)
       \/ ProceedStartRead(c)
       \/ ProceedJoinRead(c)
       \/ ProceedReadRejected(c)
       \/ TransportSucceeds(c)
       \/ \E failure \in TransportFailures : TransportFails(c, failure)
  \/ \E path \in CertPaths :
       \/ CertificateReadSucceeds(path)
       \/ CertificateReadFails(path)

\* ------------------------------------------------------------------------
\* Specifications
\* ------------------------------------------------------------------------

vars == <<nsVars, errVars, httpVars>>

\* The client: callers of get, put, post and del.
Init == HttpInit /\ NsIdle /\ ErrIdle

Spec == Init /\ [][Next]_vars

\* Policy resolution alone.
NsNext == Resolve

InitSettings == NsInit /\ ErrIdle /\ HttpInit

SpecSettings == InitSettings /\ [][NsNext]_vars

\* The structured error alone.
InitError == ErrInit /\ NsIdle /\ HttpInit

SpecError == InitError /\ [][ErrNext]_vars

\* ------------------------------------------------------------------------
\* Properties of policy resolution
\* ------------------------------------------------------------------------

\* The entries of the map fr whose pattern matches host.
NsMatching(host, fr) ==
  {i \in 1..Len(fr) : GlobMatch(host, fr[i].glob)}

\* Those among the entries in matching that define key.
NsCandidates(matching, fr, key) ==
  {i \in matching : fr[i].config[key] # Null}

\* Those among the candidates whose pattern is longest.
NsLongest(cands, fr) ==
  {i \in cands : \A j \in cands : Len(fr[j].glob) <= Len(fr[i].glob)}

\* C5: each key of the result is, independently of the other keys, the value
\* of a longest matching pattern that defines the key, or the global default
\* of the key when no matching pattern defines it.
C5_PerKeyLongestMatch ==
  nsPc = "returned" =>
    LET fr == nsConfiguration.networkSettings
        matching == NsMatching(URL(nsTarget).hostname, fr)
    IN  \A key \in KeySet :
          LET cands == NsCandidates(matching, fr, key)
          IN  IF cands = {}
              THEN nsResult[key] = nsConfiguration.defaults[key]
              ELSE \E i \in NsLongest(cands, fr) :
                     nsResult[key] = fr[i].config[key]

\* C5 witness: a resolved policy whose httpProxy comes from a less specific
\* pattern than its enableNetwork = false, while httpsProxy falls back to the
\* default.
C5_Witness ==
  /\ nsPc = "returned"
  /\ LET fr == nsConfiguration.networkSettings
         matching == NsMatching(URL(nsTarget).hostname, fr)
         proxy == NsCandidates(matching, fr, "httpProxy")
         enable == NsCandidates(matching, fr, "enableNetwork")
     IN  /\ proxy # {}
         /\ enable # {}
         /\ proxy \cap enable = {}
         /\ \A i \in proxy : \A j \in enable : Len(fr[i].glob) < Len(fr[j].glob)
         /\ nsResult["enableNetwork"] = "false"
         /\ nsResult["httpProxy"] # nsConfiguration.defaults["httpProxy"]
         /\ NsCandidates(matching, fr, "httpsProxy") = {}
         /\ nsResult["httpsProxy"] = nsConfiguration.defaults["httpsProxy"]

\* C6: when several matching patterns of the same, greatest, length define a
\* key, the result takes the key from the one that comes first in the
\* configuration.
C6_StableTieBreak ==
  nsPc = "returned" =>
    LET fr == nsConfiguration.networkSettings
        matching == NsMatching(URL(nsTarget).hostname, fr)
    IN  \A key \in KeySet :
          LET longest == NsLongest(NsCandidates(matching, fr, key), fr)
          IN  \A i \in longest :
                (\A j \in longest : i <= j) => nsResult[key] = fr[i].config[key]

\* C6 witness: two matching patterns of equal length define enableNetwork
\* with different values, and the policy has been resolved.
C6_Witness ==
  /\ nsPc = "returned"
  /\ LET fr == nsConfiguration.networkSettings
         matching == NsMatching(URL(nsTarget).hostname, fr)
         longest == NsLongest(NsCandidates(matching, fr, "enableNetwork"), fr)
     IN  \E i, j \in longest :
           /\ i < j
           /\ fr[i].config["enableNetwork"] # fr[j].config["enableNetwork"]

\* ------------------------------------------------------------------------
\* Properties of the structured error
\* ------------------------------------------------------------------------

\* The labels of a list of fields, in order.
LabelsOf(fields) == [i \in 1..Len(fields) |-> fields[i].label]

\* Whether the data of a transport failure selects the field of a label.
LabelSelected(label, error) ==
  CASE label = "Request Method"      -> error.hasRequest
    [] label = "Request URL"         -> error.hasRequest
    [] label = "Request Redirects"   ->
         error.hasRequest /\ error.request.redirects # <<>>
    [] label = "Request Retry Count" ->
         error.hasRequest /\ error.request.retryCount = error.request.retryLimit
    [] label = "Response Code"       -> error.hasResponse

\* C9: the fields of the error built for a transport failure are exactly the
\* labels of [Request Method, Request URL, Request Redirects, Request Retry
\* Count, Response Code] that the failure's data selects, in that order.
C9_FieldsAreSelectedSubsequence ==
  (errInput.origin = "transport" /\ errPc # "thrown") =>
    LET Selected(label) == LabelSelected(label, errInput.value)
    IN  LabelsOf(errObject.fields) = SelectSeq(RequestFieldLabels, Selected)

\* C9 witness: retryCount = retryLimit = 3, status 503 and no redirect give
\* method, URL, retry count and response code, and no redirect field.
C9_Witness ==
  /\ errInput.origin = "transport"
  /\ errPc = "built"
  /\ errInput.value.hasRequest
  /\ errInput.value.request.retryCount = 3
  /\ errInput.value.request.retryLimit = 3
  /\ errInput.value.request.redirects = <<>>
  /\ errInput.value.hasResponse
  /\ errInput.value.response.statusCode = 503
  /\ LabelsOf(errObject.fields) =
       <<"Request Method", "Request URL", "Request Retry Count", "Response Code">>

\* Whether text holds an occurrence of pattern.
Occurs(pattern, text) ==
  \E i \in 1..(Len(text) - Len(pattern) + 1) :
    SubSeq(text, i, i + Len(pattern) - 1) = pattern

\* C10 as stated: with a non-empty field list, reading message after
\* message = t yields exactly t.
C10_ReadYieldsAssignedText ==
  (errPc = "assignedRead" /\ errObject.fields # <<>>) => msgRead = msgAssigned

\* C10 as amended: with a non-empty field list, after message = t the read
\* message is the summary followed by the rendered field text, the summary
\* being t less whole occurrences of the rendered field text; for a t that
\* holds no occurrence the read message is t followed by the field text.
C10_ReadYieldsSummaryThenFields ==
  (errPc = "assignedRead" /\ errObject.fields # <<>>) =>
    LET sf == StringifyFields(errObject.fields, errObject.configuration)
        n == Len(msgRead)
    IN  /\ sf # ""
        /\ n >= Len(sf)
        /\ SubSeq(msgRead, n - Len(sf) + 1, n) = sf
        /\ SubSeq(msgRead, 1, n - Len(sf)) = errObject.summary
        /\ Len(errObject.summary) <= Len(msgAssigned)
        /\ (Len(msgAssigned) - Len(errObject.summary)) % Len(sf) = 0
        /\ (~Occurs(sf, msgAssigned) => msgRead = msgAssigned \o sf)

\* C10 witness: summary "boom" with the one field X: 1 and no configuration;
\* after message = "new" the summary is "new" and the message read is "new"
\* followed by the field line.
C10_Witness ==
  /\ errPc = "assignedRead"
  /\ errInput.origin = "direct"
  /\ errInput.configuration = Undefined
  /\ errObject.fields = <<FieldX>>
  /\ msgAssigned = "new"
  /\ errObject.summary = "new"
  /\ msgRead = "new\n    X: 1"

\* ------------------------------------------------------------------------
\* Properties of the client
\* ------------------------------------------------------------------------

\* The states of a request that has neither resolved nor rejected.
InFlight == {"import", "cert", "queued", "transport"}

\* The get callers whose own request for target is in flight.
DispatchersInFlight(target) ==
  {d \in Callers : /\ call[d].op = "get"
                   /\ call[d].target = target
                   /\ req[d].state \in InFlight}

\* C1: while a get request for a target is in flight it is the only one, its
\* entry is in the cache, and a get caller that found the entry makes no
\* request of its own; the request makes at most one transport call, and
\* every caller that awaited the entry and returned got the bytes of that one
\* call (decoded when it asked for JSON), whatever its options.
C1_SingleFlight ==
  /\ \A target \in Targets :
       /\ Cardinality(DispatchersInFlight(target)) <= 1
       /\ \A d \in DispatchersInFlight(target) :
            cache[target].state = "pending" /\ cache[target].owner = d
  /\ \A c \in Callers :
       (call[c].op = "get" /\ entryOf[c] # 0) =>
         LET d == entryOf[c]
         IN  /\ call[d].op = "get"
             /\ call[d].target = call[c].target
             /\ log[d].transport <= 1
             /\ (c # d => req[c].state = "none" /\ log[c].transport = 0)
             /\ (pc[c] = "awaiting" => req[d].state \in InFlight)
             /\ (pc[c] = "returned" =>
                   /\ log[d].transport = 1
                   /\ req[d].state = "fulfilled"
                   /\ IF call[c].jsonResponse
                      THEN /\ result[c].kind = "json"
                           /\ NumText(result[c].value) = req[d].body
                      ELSE /\ result[c].kind = "bytes"
                           /\ result[c].bytes = req[d].body)

\* C1 witness: two callers of get for one target with different
\* configurations and jsonResponse options, the second called while the
\* first's request was in flight; one transport call, and both returned its
\* body.
C1_Witness ==
  \E c, d \in Callers :
    /\ c # d
    /\ call[c].op = "get" /\ call[d].op = "get"
    /\ call[c].target = call[d].target
    /\ call[c].configuration # call[d].configuration
    /\ call[c].jsonResponse /\ ~call[d].jsonResponse
    /\ entryOf[c] = d /\ entryOf[d] = d
    /\ pc[c] = "returned" /\ pc[d] = "returned"
    /\ log[d].transport = 1 /\ log[c].transport = 0
    /\ result[d].bytes = req[d].body
    /\ NumText(result[c].value) = req[d].body

\* C2: no failure stays in the response cache.
C2_FailedGetNotCached ==
  \A target \in Targets : cache[target].state # "rejected"

\* The protocol and the host name of each target.
TargetUrls == [target \in Targets |-> URL(target)]

\* Whether the host of a target matches a glob of the whitelist of a
\* configuration.
Whitelisted ==
  [target \in Targets, name \in ConfigurationNames |->
     \E i \in 1..Len(Configuration(name).unsafeHttpWhitelist) :
       GlobMatch(TargetUrls[target].hostname,
                 Configuration(name).unsafeHttpWhitelist[i])]

\* Whether text starts with prefix.
StartsWith(text, prefix) ==
  Len(text) >= Len(prefix) /\ SubSeq(text, 1, Len(prefix)) = prefix

\* C3: a request whose resolved policy has enableNetwork = false has failed
\* with the plain network-disabled error, and has read no certificate,
\* passed no gate and made no transport call.
C3_DisabledNetworkBlocks ==
  \A c \in Callers :
    (/\ req[c].state # "none"
     /\ NetworkConfigs[call[c].target, call[c].configuration].enableNetwork
          = "false") =>
      /\ req[c].state = "rejected"
      /\ req[c].error =
           NewError("Request to '" \o call[c].target
                      \o "' has been blocked because of your configuration settings")
      /\ ~isEnhancedError(req[c].error)
      /\ pc[c] = "raised"
      /\ result[c].error = req[c].error
      /\ log[c] = NoLog
      /\ c \notin {queue[i] : i \in 1..Len(queue)}
      /\ \A path \in CertPaths :
           c \notin {certCache[path].waiters[i] :
                       i \in 1..Len(certCache[path].waiters)}

\* C3 witness: put for api.example.com under the configuration that
\* disables the network for that host has raised the plain error.
C3_Witness ==
  \E c \in Callers :
    /\ call[c].op = "put"
    /\ call[c].target = "https://api.example.com/x"
    /\ call[c].configuration = "strict"
    /\ NetworkConfigs[call[c].target, call[c].configuration].enableNetwork
         = "false"
    /\ NetworkConfigs[call[c].target, call[c].configuration].httpProxy
         = "http://proxy:8080"
    /\ pc[c] = "raised"
    /\ ~isEnhancedError(result[c].error)
    /\ log[c].transport = 0

\* C4: with the network enabled, a request for an http target whose host no
\* glob of the whitelist matches has failed with the unsafe-protocol error
\* and made no transport call; a request for an https target is never
\* rejected with that error; and a transport call for an http target is made
\* only for a whitelisted host.
C4_UnsafeHttpNeedsWhitelist ==
  \A c \in Callers :
    LET target == call[c].target
        name == call[c].configuration
        unsafeMessage ==
          "Unsafe http requests must be explicitly whitelisted in your configuration ("
            \o TargetUrls[target].hostname \o ")"
    IN  req[c].state # "none" =>
          /\ (/\ NetworkConfigs[target, name].enableNetwork # "false"
              /\ TargetUrls[target].protocol = "http:"
              /\ ~Whitelisted[target, name]) =>
               /\ req[c].state = "rejected"
               /\ req[c].error = NewError(unsafeMessage)
               /\ pc[c] = "raised"
               /\ result[c].error = req[c].error
               /\ log[c] = NoLog
          /\ (/\ NetworkConfigs[target, name].enableNetwork # "false"
              /\ TargetUrls[target].protocol = "https:") =>
               /\ req[c].error # NewError(unsafeMessage)
               /\ (req[c].state = "rejected" =>
                     log[c].certLookup \/ log[c].transport = 1)
          /\ (log[c].transport > 0 /\ TargetUrls[target].protocol = "http:") =>
               Whitelisted[target, name]

\* C4 witness: under one configuration, a request for http://api.example.com
\* has failed with the unsafe-protocol error while a request for
\* https://api.example.com has reached its transport call.
C4_Witness ==
  \E c, d \in Callers :
    /\ call[c].configuration = "open" /\ call[d].configuration = "open"
    /\ call[c].target = "http://api.example.com/x"
    /\ call[d].target = "https://api.example.com/x"
    /\ req[c].state = "rejected"
    /\ ~isEnhancedError(req[c].error)
    /\ StartsWith(req[c].error.message, "Unsafe http requests")
    /\ log[c].transport = 0
    /\ log[d].transport = 1

\* The requests whose transport call is in progress.
TransportsInProgress == {c \in Callers : req[c].state = "transport"}

\* C7: the transport calls in progress never outnumber networkConcurrency.
C7_GateBoundsTransports ==
  Cardinality(TransportsInProgress) <= NetworkConcurrency

\* C7 witness: as many transport calls in progress as the limit allows,
\* and a request waiting at the gate.
C7_Witness ==
  /\ Cardinality(TransportsInProgress) = NetworkConcurrency
  /\ queue # <<>>
  /\ \A i \in 1..Len(queue) : req[queue[i]].state = "queued"

\* C8 as stated: whatever the transport call failed with, the request
\* raises a StructuredError.
C8_EveryTransportFailureStructured ==
  \A c \in Callers :
    log[c].failure # NoError =>
      req[c].state = "rejected" /\ isEnhancedError(req[c].error)

\* C8 as amended: a transport failure that is a RequestError is raised as a
\* StructuredError with the failure's name and message, no stack, and the
\* request and response context; any other failure is raised unchanged.
C8_RequestErrorsStructured ==
  \A c \in Callers :
    log[c].failure # NoError =>
      /\ req[c].state = "rejected"
      /\ pc[c] = "raised"
      /\ result[c].error = req[c].error
      /\ IF log[c].failure.isRequestError
         THEN /\ isEnhancedError(req[c].error)
              /\ req[c].error.name = log[c].failure.name
              /\ req[c].error.summary = log[c].failure.message
              /\ ~req[c].error.includeStack
              /\ LabelsOf(req[c].error.fields) =
                   <<"Request Method", "Request URL", "Request Retry Count",
                     "Response Code">>
         ELSE /\ req[c].error = log[c].failure
              /\ ~isEnhancedError(req[c].error)

\* C8 witness: one request has raised the StructuredError built from a
\* RequestError, another the raw error its transport call failed with.
C8_Witness ==
  \E c, d \in Callers :
    /\ log[c].failure = TransportRequestError
    /\ pc[c] = "raised"
    /\ isEnhancedError(result[c].error)
    /\ log[d].failure = TransportOtherError
    /\ pc[d] = "raised"
    /\ result[d].error = TransportOtherError

\* ------------------------------------------------------------------------
\* Layers: a value is wrapped, and the result is wrapped again or enhanced
\* ------------------------------------------------------------------------

\* Values that are thrown and are no Error: 42, true, null, undefined, the
\* object {a: 1} and the array [1], each with its JSON text.  The object and
\* the array have no name and no message.
NonErrorValues ==
  {[typeof |-> "number", isNull |-> FALSE, json |-> "42"],
   [typeof |-> "boolean", isNull |-> FALSE, json |-> "true"],
   [typeof |-> "object", isNull |-> TRUE, json |-> "null"],
   [typeof |-> "undefined", isNull |-> FALSE, json |-> "undefined"],
   [typeof |-> "object", isNull |-> FALSE, isEnhancedError |-> FALSE,
    isRequestError |-> FALSE, name |-> Undefined, message |-> Undefined,
    json |-> "{\"a\":1}"],
   [typeof |-> "object", isNull |-> FALSE, isEnhancedError |-> FALSE,
    isRequestError |-> FALSE, name |-> Undefined, message |-> Undefined,
    json |-> "[1]"]}

\* What is handed to the constructor first: a text, an Error, or a value
\* that is no Error.
WrapValues ==
  {[typeof |-> "string", value |-> "boom"], NewError("boom")}
    \cup NonErrorValues

\* The builders: each of name, summary, fields and includeStack absent or
\* given.
WrapBuilders ==
  {[name |-> n, summary |-> s, hasFields |-> f # <<>>, fields |-> f,
    includeStack |-> i]
   : n \in {NoBuilder, Literal("CustomError")},
     s \in {NoBuilder, Appending(" (ctx)"), Literal("other")},
     f \in {<<>>, <<FieldY>>},
     i \in {Undefined, "false", "true"}}

\* The RequestErrors wrapped here: one that attaches every context step, one
\* that attaches all but the timeout hint, one that attaches none.
WrapRequestErrors ==
  {e \in RequestErrors :
     \/ /\ e.hasRequest
        /\ e.isTimeoutError => e.event = "socket"
        /\ Len(e.request.redirects) = 1
        /\ e.request.retryCount = MaxRetryLimit
        /\ e.request.retryLimit = MaxRetryLimit
        /\ e.hasResponse /\ e.response.statusCode = 503
     \/ ~e.hasRequest /\ ~e.hasResponse}

\* The first construction.  root tells where the error comes from, depth how
\* many steps have been applied to it.
WrapInputs ==
  {[origin |-> "direct", root |-> "direct", value |-> v, builder |-> b,
    configuration |-> c, depth |-> 0]
   : v \in WrapValues,
     b \in {EmptyBuilder, FieldsBuilder(<<FieldX>>)} \cup WrapBuilders,
     c \in {Undefined, "plain"}}
  \cup
  {[origin |-> "transport", root |-> "transport", value |-> e,
    builder |-> EmptyBuilder, configuration |-> "plain", depth |-> 0]
   : e \in WrapRequestErrors}

WrapInit ==
  /\ errInput \in WrapInputs
  /\ errObject = NewInstance
  /\ errPc = "thrown"
  /\ msgAssigned = ""
  /\ msgRead = ""

\* new EnhancedError(error, builder) where error is the StructuredError
\* built so far.
Wrap ==
  /\ errPc = "built"
  /\ errInput.depth < MaxLayers
  /\ \E b \in WrapBuilders, c \in {Undefined} :
       /\ errObject' = EnhancedError(errObject, b, c)
       /\ errInput' = [origin |-> "wrap", root |-> errInput.root,
                       value |-> errObject, builder |-> b,
                       configuration |-> c, depth |-> errInput.depth + 1]
  /\ UNCHANGED <<errPc, msgAssigned, msgRead>>
  /\ UNCHANGED <<nsVars, httpVars>>

\* EnhancedError.enhance(error, builder) on the StructuredError built so
\* far.
Enhance ==
  /\ errPc = "built"
  /\ errInput.depth < MaxLayers
  /\ \E b \in WrapBuilders :
       /\ errObject' = enhance(errObject, b)
       /\ errInput' = [origin |-> "enhance", root |-> errInput.root,
                       value |-> errObject, builder |-> b,
                       configuration |-> errObject.configuration,
                       depth |-> errInput.depth + 1]
  /\ UNCHANGED <<errPc, msgAssigned, msgRead>>
  /\ UNCHANGED <<nsVars, httpVars>>

WrapNext == Construct \/ CatchRequestError \/ Wrap \/ Enhance

InitWrap == WrapInit /\ NsIdle /\ HttpInit

SpecWrap == InitWrap /\ [][WrapNext]_vars

\* C11: after new EnhancedError(E1, builder) on a StructuredError E1, the
\* fields are E1's fields followed by the builder's fields; the name is
\* E1's unless the builder gives one; the summary is E1's, E1's with the
\* builder's text appended, or the builder's text; includeStack is E1's
\* unless the builder gives it.  E1 is itself the result of any earlier
\* layer.
C11_WrapAppendsFields ==
  errInput.origin = "wrap" =>
    LET E1 == errInput.value
        builder == errInput.builder
    IN  /\ isEnhancedError(errObject)
        /\ errObject.fields = E1.fields \o builder.fields
        /\ SubSeq(errObject.fields, 1, Len(E1.fields)) = E1.fields
        /\ errObject.name = IF builder.name.kind = "undefined"
                            THEN E1.name ELSE builder.name.text
        /\ errObject.summary =
             IF builder.summary.kind = "undefined" THEN E1.summary
             ELSE IF builder.summary.kind = "function"
             THEN E1.summary \o builder.summary.text
             ELSE builder.summary.text
        /\ errObject.includeStack =
             IF builder.includeStack = Undefined THEN E1.includeStack
             ELSE builder.includeStack = "true"

\* C11 witness: "boom" built with field X, wrapped twice, the second time
\* with field Y and nothing else: the fields end X, Y and the name and
\* includeStack are those of the first layer, which set them.
C11_Witness ==
  /\ errInput.origin = "wrap"
  /\ errInput.root = "direct"
  /\ errInput.depth = 2
  /\ errInput.builder = FieldsBuilder(<<FieldY>>)
  /\ errInput.value.fields = <<FieldX>>
  /\ errInput.value.name = "CustomError"
  /\ ~errInput.value.includeStack
  /\ errObject.fields = <<FieldX, FieldY>>
  /\ errObject.name = "CustomError"
  /\ errObject.summary = "boom (ctx)"
  /\ ~errObject.includeStack

\* C12: whatever value that is no Error is wrapped, with whatever builder,
\* the summary tells its JSON text and its type and there are no fields.
C12_NonErrorValueDescribed ==
  (/\ errPc = "built"
   /\ errInput.origin = "direct"
   /\ errInput.value \in NonErrorValues) =>
    /\ errObject.summary =
         "Non-error exception " \o errInput.value.json
           \o " of type " \o errInput.value.typeof
    /\ errObject.fields = <<>>

\* C17: after enhance(e, b), includeStack is false exactly when b says
\* false, or b does not say and e.includeStack was false; the stack is there
\* exactly when includeStack is true.  The error built for a transport
\* failure has includeStack false, and keeps it through every step that
\* does not say includeStack.
C17_StackPolicy ==
  /\ errInput.origin = "enhance" =>
       /\ ~errObject.includeStack <=>
            \/ errInput.builder.includeStack = "false"
            \/ /\ errInput.builder.includeStack = Undefined
               /\ ~errInput.value.includeStack
       /\ errObject.hasStack = errObject.includeStack
  /\ (errInput.origin = "transport" /\ errPc = "built") =>
       ~errObject.includeStack /\ ~errObject.hasStack
  /\ (/\ errInput.origin = "enhance"
      /\ errInput.builder.includeStack = Undefined
      /\ ~errInput.value.includeStack) =>
       ~errObject.includeStack

\* C17 witness: the error built for a transport failure, with all its
\* context fields and includeStack false, is enhanced with includeStack
\* true and has its stack again.
C17_Witness ==
  /\ errInput.origin = "enhance"
  /\ errInput.root = "transport"
  /\ errInput.depth = 1
  /\ Len(errInput.value.fields) = 5
  /\ ~errInput.value.includeStack
  /\ errInput.builder.includeStack = "true"
  /\ errObject.includeStack
  /\ errObject.hasStack

\* put, post and del.
Verbs == {"put", "post", "del"}

\* A call of put, post or del that passes the policy checks has a request
\* of its own and awaits no entry; once in its transport call it has made
\* exactly one, and it returns the body of that call.
VerbsDispatch ==
  \A c \in Callers :
    call[c].op \in Verbs =>
      /\ entryOf[c] = 0
      /\ PolicyErrors[call[c].target, call[c].configuration] = NoError =>
           /\ req[c].state # "none"
           /\ req[c].state \in {"transport", "fulfilled"} =>
                log[c].transport = 1
           /\ pc[c] = "returned" =>
                /\ req[c].state = "fulfilled"
                /\ result[c] = BodyResult(ResponseBody(c))

\* The steps that change the cache entry of a target: a call of get for
\* the target, or the settling of the request of such a call.  A call of
\* put, post or del changes no entry.
CacheChangedByGetOnly ==
  /\ \A target \in Targets :
       cache'[target] # cache[target] =>
         \E d \in Callers :
           /\ call'[d].op = "get"
           /\ call'[d].target = target
           /\ \/ call[d].op = "none"
              \/ req[d].state \in InFlight /\ req'[d].state \notin InFlight
  /\ (\E c \in Callers : call[c].op = "none" /\ call'[c].op \in Verbs) =>
       cache' = cache

\* C13: put, post and del make their own transport call whatever the cache
\* holds, and no step of theirs changes the cache.
C13_VerbsUncached == []VerbsDispatch /\ [][CacheChangedByGetOnly]_vars

\* C13 witness: two identical calls of put have both returned, each after a
\* transport call of its own, and the cache has no entry for their target.
C13_Witness ==
  \E c, d \in Callers :
    /\ c # d
    /\ call[c] = call[d]
    /\ call[c].op = "put"
    /\ pc[c] = "returned" /\ pc[d] = "returned"
    /\ log[c].transport = 1 /\ log[d].transport = 1
    /\ transportSeq = 2
    /\ result[c] # result[d]
    /\ cache[call[c].target].state = "absent"

\* get calls that found the bytes of their target in the cache.
ServedFromCache ==
  {c \in Callers : /\ call[c].op = "get"
                   /\ entryOf[c] = 0
                   /\ pc[c] = "returned"}

\* A call of get served from the cache has made no request and returns the
\* bytes stored for its target; at most one call of get per target has ever
\* made a transport call.
CachedBytesServed ==
  /\ \A c \in ServedFromCache :
       /\ req[c].state = "none"
       /\ log[c] = NoLog
       /\ cache[call[c].target].state = "bytes"
       /\ IF call[c].jsonResponse
          THEN NumText(result[c].value) = cache[call[c].target].body
          ELSE result[c].bytes = cache[call[c].target].body
  /\ \A target \in Targets :
       Cardinality({d \in Callers : /\ call[d].op = "get"
                                    /\ call[d].target = target
                                    /\ log[d].transport > 0}) <= 1

\* The moves of a cache entry: from absent to the promise of a request
\* (which may settle as rejected at once or later), from a pending promise
\* to bytes; bytes never change.
CacheEntryMoves ==
  \A target \in Targets :
    cache'[target] # cache[target] =>
      \/ /\ cache[target].state = "absent"
         /\ cache'[target].state \in {"pending", "rejected"}
      \/ /\ cache[target].state = "pending"
         /\ cache'[target].state \in {"bytes", "rejected"}

\* C14: once the entry of a target is bytes it never changes, later calls
\* of get return those bytes without a request, and an entry only moves
\* from absent to a promise and from a promise to bytes.
C14_CachedBytesFinal == []CachedBytesServed /\ [][CacheEntryMoves]_vars

\* C14 witness: a get has fetched the bytes of a target, and a later get of
\* the same target has returned them without a transport call.
C14_Witness ==
  \E c \in ServedFromCache, d \in Callers :
    /\ call[d].op = "get"
    /\ call[d].target = call[c].target
    /\ entryOf[d] = d
    /\ pc[d] = "returned"
    /\ log[d].transport = 1
    /\ transportSeq = 1
    /\ result[c].bytes = result[d].bytes
    /\ result[c].bytes = cache[call[c].target].body
    /\ result[c].bytes # ""

\* The requests that started the read of a certificate file, and those
\* suspended on the read.
CertificateReaders(path) ==
  {c \in Callers : /\ log[c].fileRead
                   /\ CaFilePath(call[c]) = path}

CertificateWaiters(path) ==
  {c \in Callers : /\ req[c].state = "cert"
                   /\ CaFilePath(call[c]) = path}

\* C15: for every certificate path at most one read is ever started; there
\* is an entry for the path exactly when a read was started; while the read
\* is in flight the requests suspended on it are exactly the waiters of the
\* one entry, the reader first; and a request that has passed the gate with
\* a certificate path found the bytes stored.
C15_SingleCertificateRead ==
  \A path \in CertPaths :
    /\ Cardinality(CertificateReaders(path)) <= 1
    /\ certCache[path].state = "absent" <=> CertificateReaders(path) = {}
    /\ LET waiters == certCache[path].waiters
       IN  /\ {waiters[i] : i \in 1..Len(waiters)} = CertificateWaiters(path)
           /\ Len(waiters) = Cardinality(CertificateWaiters(path))
           /\ certCache[path].state = "pending" =>
                waiters # <<>> /\ Head(waiters) \in CertificateReaders(path)
           /\ certCache[path].state # "pending" => waiters = <<>>
    /\ \A c \in Callers :
         (/\ log[c].admitted
          /\ HasCaFilePath(call[c])
          /\ CaFilePath(call[c]) = path) =>
           /\ log[c].certLookup
           /\ certCache[path].state = "bytes"

\* C15 witness: two requests needed the file; one read was started, the
\* second request awaited it, and both went on to their transport calls
\* once it completed.
C15_Witness ==
  \E path \in CertPaths, c, d \in Callers :
    /\ c # d
    /\ call[c].op \in Verbs /\ call[d].op \in Verbs
    /\ CertificateReaders(path) = {c}
    /\ log[d].certLookup /\ ~log[d].fileRead
    /\ certCache[path].state = "bytes"
    /\ log[c].transport = 1 /\ log[d].transport = 1
    /\ transportSeq = 2

\* C16: no failed read stays in the certificate cache.
C16_FailedReadNotCached ==
  \A path \in CertPaths : certCache[path].state # "rejected"

\* C18: the slots taken are those of the transport calls in progress; a
\* request that has not reached the limiter (before its import resumes, or
\* suspended on a certificate read) has not been admitted and does not wait
\* at the gate; a caller of get awaiting another caller's entry has no
\* request at all.
C18_SlotOnlyDuringTransport ==
  /\ activeCount = Cardinality(TransportsInProgress)
  /\ \A i \in 1..Len(queue) : req[queue[i]].state = "queued"
  /\ \A c \in Callers :
       /\ req[c].state \in {"none", "import", "cert"} =>
            /\ ~log[c].admitted
            /\ log[c].transport = 0
            /\ c \notin {queue[i] : i \in 1..Len(queue)}
       /\ log[c].admitted <=> log[c].transport = 1
       /\ (call[c].op = "get" /\ entryOf[c] \notin {0, c}) =>
            req[c].state = "none"

\* C18 witness: a request is suspended on a certificate read and a caller
\* of get awaits that request's entry, while no slot is taken and nobody
\* waits at the gate.
C18_Witness ==
  \E c, d \in Callers :
    /\ c # d
    /\ req[c].state = "cert"
    /\ call[d].op = "get"
    /\ pc[d] = "awaiting"
    /\ entryOf[d] = c
    /\ activeCount = 0
    /\ queue = <<>>

\* ------------------------------------------------------------------------
\* Progress
\* ------------------------------------------------------------------------

\* A request resumes after the import of got: whichever of the four
\* continuations applies.
Proceed(c) ==
  \/ ProceedToGate(c)
  \/ ProceedStartRead(c)
  \/ ProceedJoinRead(c)
  \/ ProceedReadRejected(c)

\* The transport call of request c completes.
TransportCompletes(c) ==
  \/ TransportSucceeds(c)
  \/ \E failure \in TransportFailures : TransportFails(c, failure)

\* The read of a certificate file completes.
CertificateReadCompletes(path) ==
  \/ CertificateReadSucceeds(path)
  \/ CertificateReadFails(path)

\* Continuations of resolved promises run; every transport call in progress
\* and every certificate read in flight completes.  Nothing obliges a caller
\* to call.
Fairness ==
  /\ \A c \in Callers : WF_vars(Proceed(c))
  /\ \A c \in Callers : WF_vars(TransportCompletes(c))
  /\ \A path \in CertPaths : WF_vars(CertificateReadCompletes(path))

\* The calls made while progress is observed: put and get of bytes, for a
\* target that needs the certificate file and one that does not, under
\* either configuration.
LiveTargets == {"https://api.example.com/x", "http://cdn.example.com/x"}

FairNext ==
  \/ \E c \in Callers, target \in LiveTargets,
        configuration \in ConfigurationNames :
       \/ CallVerb(c, "put", target, configuration)
       \/ CallGetDispatch(c, target, configuration, FALSE)
       \/ CallGetAwait(c, target, configuration, FALSE)
       \/ CallGetCached(c, target, configuration, FALSE)
  \/ \E c \in Callers : Proceed(c) \/ TransportCompletes(c)
  \/ \E path \in CertPaths : CertificateReadCompletes(path)

FairSpec == Init /\ [][FairNext]_vars /\ Fairness

\* C19: every call that is suspended eventually returns or raises.
C19_EveryCallSettles ==
  \A c \in Callers :
    (pc[c] = "awaiting") ~> (pc[c] \in {"returned", "raised"})

\* C19 witness: every slot is taken, a caller waits at the gate, suspended,
\* behind a transport call that has not completed.
C19_Witness ==
  /\ queue # <<>>
  /\ pc[Head(queue)] = "awaiting"
  /\ activeCount = NetworkConcurrency
  /\ \E c \in Callers : req[c].state = "transport" /\ pc[c] = "awaiting"

\* A call of get that finds an entry for its target starts no request, so
\* evaluates no policy, and takes the outcome of the entry: the stored
\* bytes, the stored failure, or a place among the callers awaiting it.
GetTakesEntryFound ==
  \A c \in Callers :
    (/\ call[c].op = "none"
     /\ call'[c].op = "get"
     /\ cache[call'[c].target].state # "absent") =>
      LET entry == cache[call'[c].target]
      IN  /\ req'[c].state = "none"
          /\ log'[c] = NoLog
          /\ cache' = cache
          /\ entry.state = "bytes" =>
               /\ pc'[c] = "returned"
               /\ result'[c] = GetResult(entry.body, call'[c].jsonResponse)
          /\ entry.state = "rejected" =>
               /\ pc'[c] = "raised"
               /\ result'[c] = RaisedResult(entry.error)
          /\ entry.state = "pending" =>
               /\ pc'[c] = "awaiting"
               /\ entryOf'[c] = entry.owner

\* Among the callers of get only the one that dispatched has a request,
\* hence had the policy checks run.
PolicyRunsForDispatcherOnly ==
  \A c \in Callers :
    (call[c].op = "get" /\ req[c].state # "none") => entryOf[c] = c

\* C20: get looks into the cache before any policy is evaluated, and a
\* caller that finds an entry gets its outcome whatever its configuration.
C20_CacheBeforePolicy ==
  [][GetTakesEntryFound]_vars /\ []PolicyRunsForDispatcherOnly

\* C20 witness: get under the configuration that disables the network for
\* the host has returned the bytes another caller had fetched.
C20_Witness ==
  \E c \in ServedFromCache :
    /\ call[c].configuration = "strict"
    /\ call[c].target = "https://api.example.com/x"
    /\ NetworkConfigs[call[c].target, call[c].configuration].enableNetwork
         = "false"
    /\ PolicyErrors[call[c].target, call[c].configuration] # NoError
    /\ result[c].kind = "bytes"
    /\ result[c].bytes = cache[call[c].target].body
    /\ req[c].state = "none"

====
